---- MODULE Spec2Model ----
(***************************************************************************)
(* Model of the notebook "FITS images in python": its code cells run once  *)
(* each, top to bottom, over a namespace of names and values.  The pixel   *)
(* data of the two FITS files are the inputs.  Pixel counts are integers;  *)
(* quotients (means, medians, bin edges, linspace points) are kept exact   *)
(* as pairs <<numerator, denominator>>, and 0/0 is numpy's nan.  A         *)
(* standard deviation is kept as the pair under its square root.           *)
(***************************************************************************)
EXTENDS Integers, Sequences, FiniteSets, TLC

VARIABLES pc, err, bound,
          hdulist, imagedata, countvalues,
          clippedvalues, normalization, mu, sig, mode, xarray,
          hdu2, imagedata2, sum, allimages, avg,
          printed, plot, avg_fits,
          call, args

file1  == <<hdulist, imagedata, countvalues>>
fit    == <<clippedvalues, normalization, mu, sig, mode, xarray>>
stack  == <<hdu2, imagedata2, sum, allimages, avg>>
output == <<printed, plot>>
fn     == <<call, args>>
vars   == <<pc, err, bound, file1, fit, stack, output, avg_fits, fn>>

(* ---------------------------------------------------------------- bounds *)
\* largest number of pixels (rows * columns) of an input image
MaxPixels == 3
\* longest series handed to a statistics or histogram call on its own
MaxLen == 3
\* largest sample value, range end and bin count of such a call
MaxVal == 3

(* ------------------------------------------------------ program constants *)
hist12_bins  == 100
hist13_rmin  == 900
hist13_rmax  == 1300
hist13_bins  == 100
clip15_upper == 1050
cmin         == 900
cmax         == 1200
nbins        == 100
clipmin      == cmin
clipmax      == 1100

(* ------------------------------------------------------------ input data *)
\* pixel counts around the notebook's literal limits
Counts == {899, 900, 1050, 1100, 1200, 1201}

Shapes == {sh \in (1..MaxPixels) \X (1..MaxPixels) : sh[1] * sh[2] <= MaxPixels}

ImagesOf(sh) == [1..sh[1] -> [1..sh[2] -> Counts]]

Images == UNION {ImagesOf(sh) : sh \in Shapes}

\* pixel counts of the second file
Counts2 == {900, 1201}

Images2 == UNION {[1..sh[1] -> [1..sh[2] -> Counts2]] : sh \in Shapes}

(* ------------------------------------------------------------ array basics *)
Shape(img) == <<Len(img), IF Len(img) = 0 THEN 0 ELSE Len(img[1])>>

RECURSIVE flatten(_)
flatten(img) == IF img = <<>> THEN <<>> ELSE Head(img) \o flatten(Tail(img))

RECURSIVE np_sum(_)
np_sum(S) == IF S = <<>> THEN 0 ELSE Head(S) + np_sum(Tail(S))

RECURSIVE np_max(_)
np_max(S) == IF Len(S) = 1 THEN S[1]
             ELSE LET m == np_max(Tail(S)) IN IF Head(S) > m THEN Head(S) ELSE m

RECURSIVE np_min(_)
np_min(S) == IF Len(S) = 1 THEN S[1]
             ELSE LET m == np_min(Tail(S)) IN IF Head(S) < m THEN Head(S) ELSE m

\* sum / count; the empty series gives 0/0, numpy's nan
np_mean(S) == <<np_sum(S), Len(S)>>

np_sort(S) == SortSeq(S, LAMBDA a, b : a < b)

\* middle sample of the sorted series, or the mean of the two middle ones
np_median_wrong(S) ==
    LET n == Len(S)
        s == np_sort(S)
    IN  IF n = 0 THEN <<0, 0>>
        ELSE IF n % 2 = 1 THEN <<s[(n + 1) \div 2], 1>>
        ELSE <<s[n \div 2] + s[n \div 2], 2>>
np_median(S) ==
    LET n == Len(S)
        s == np_sort(S)
    IN  IF n = 0 THEN <<0, 0>>
        ELSE IF n % 2 = 1 THEN <<s[(n + 1) \div 2], 1>>
        ELSE <<s[n \div 2] + s[n \div 2 + 1], 2>>

RECURSIVE SumSqDev(_, _, _)
SumSqDev(S, n, total) ==
    IF S = <<>> THEN 0
    ELSE (n * Head(S) - total) * (n * Head(S) - total) + SumSqDev(Tail(S), n, total)

\* sqrt(mean(|x - mean|^2)), divisor = count: the pair under the root
np_std_wrong(S) ==
    LET n == Len(S)
    IN  <<SumSqDev(S, n, np_sum(S)), n * n * (n - 1)>>
np_std(S) ==
    LET n == Len(S)
    IN  <<SumSqDev(S, n, np_sum(S)), n * n * n>>

Occurrences(S, v) == Cardinality({i \in DOMAIN S : S[i] = v})

Range(S) == {S[i] : i \in DOMAIN S}

\* scipy.stats.mode: the scores in ascending order, a later score replaces
\* the most frequent one only when it occurs strictly more often
RECURSIVE ModeScan(_, _, _, _)
ModeScan(S, scores, best, bestcount) ==
    IF scores = <<>> THEN <<best, bestcount>>
    ELSE LET c == Occurrences(S, Head(scores))
         IN  IF c > bestcount
             THEN ModeScan(S, Tail(scores), Head(scores), c)
             ELSE ModeScan(S, Tail(scores), best, bestcount)

RECURSIVE ModeScanTieLast(_, _, _, _)
ModeScanTieLast(S, scores, best, bestcount) ==
    IF scores = <<>> THEN <<best, bestcount>>
    ELSE LET c == Occurrences(S, Head(scores))
         IN  IF c >= bestcount
             THEN ModeScanTieLast(S, Tail(scores), Head(scores), c)
             ELSE ModeScanTieLast(S, Tail(scores), best, bestcount)

RECURSIVE np_unique(_)
np_unique(s) ==
    IF Len(s) <= 1 THEN s
    ELSE IF s[1] = s[2] THEN np_unique(Tail(s))
    ELSE <<s[1]>> \o np_unique(Tail(s))

\* <<array of modes, array of counts>>; both empty for an empty series
stats_mode_wrong(S) ==
    IF S = <<>> THEN << <<>>, <<>> >>
    ELSE LET r == ModeScanTieLast(S, np_unique(np_sort(S)), 0, 0)
         IN  << <<r[1]>>, <<r[2]>> >>
stats_mode(S) ==
    IF S = <<>> THEN << <<>>, <<>> >>
    ELSE LET r == ModeScan(S, np_unique(np_sort(S)), 0, 0)
         IN  << <<r[1]>>, <<r[2]>> >>

\* a[mask]: a copy holding the samples whose mask entry is true, in order
RECURSIVE MaskIndex(_, _)
MaskIndex(a, mask) ==
    IF a = <<>> THEN <<>>
    ELSE (IF Head(mask) THEN <<Head(a)>> ELSE <<>>) \o MaskIndex(Tail(a), Tail(mask))

(* ---------------------------------------------------------- np.histogram *)
\* Edges are kept in half units so that the widening by 0.5 of a range with
\* rmin = rmax stays an integer.
HistFirst(rmin, rmax) == IF rmin = rmax THEN 2 * rmin - 1 ELSE 2 * rmin

HistLast(rmin, rmax) == IF rmin = rmax THEN 2 * rmax + 1 ELSE 2 * rmax

\* samples outside [first edge, last edge] are dropped before binning
HistKeepOpenTop(x, lo, hi) == 2 * x >= lo /\ 2 * x < hi
HistKeep(x, lo, hi) == 2 * x >= lo /\ 2 * x <= hi

\* 0-based bin of a kept sample; the sample on the last edge joins the last bin
BinIndex(x, bins, lo, hi) ==
    LET f == ((2 * x - lo) * bins) \div (hi - lo)
    IN  IF f = bins THEN bins - 1 ELSE f

HistInvalid(bins, rmin, rmax) == bins < 1 \/ rmin > rmax

NoPlot == [counts |-> <<>>, edges |-> <<>>]

\* counts per bin and the bins + 1 edges, each edge <<numerator, denominator>>
np_histogram(a, bins, rmin, rmax) ==
    LET lo == HistFirst(rmin, rmax)
        hi == HistLast(rmin, rmax)
    IN  [counts |-> [k \in 1..bins |->
                        Cardinality({i \in DOMAIN a :
                            /\ HistKeep(a[i], lo, hi)
                            /\ BinIndex(a[i], bins, lo, hi) = k - 1})],
         edges  |-> [k \in 1..(bins + 1) |->
                        <<lo * bins + (k - 1) * (hi - lo), 2 * bins>>]]

\* plt.hist(a, range=[rmin, rmax], bins=bins): the error raised and the plot
plt_hist(a, bins, rmin, rmax) ==
    IF HistInvalid(bins, rmin, rmax)
    THEN [err |-> "ValueError", plot |-> NoPlot]
    ELSE [err |-> "none", plot |-> np_histogram(a, bins, rmin, rmax)]

\* plt.hist(a, bins=bins): the range is the data's own (0, 1) when empty
plt_hist_auto(a, bins) ==
    IF a = <<>> THEN plt_hist(a, bins, 0, 1)
    ELSE plt_hist(a, bins, np_min(a), np_max(a))

(* ----------------------------------------------------------- np.linspace *)
\* the i-th of num evenly spaced points (i from 0), endpoint included
linspace_point(start, stop, num, i) ==
    IF num = 1 THEN <<start, 1>>
    ELSE <<start * (num - 1) + i * (stop - start), num - 1>>

np_linspace(start, stop, num) ==
    [k \in 1..num |-> linspace_point(start, stop, num, k - 1)]

(* ------------------------------------------------- arithmetic on images *)
Max2(a, b) == IF a > b THEN a ELSE b

\* numpy broadcasting: per axis the sizes agree or one of them is 1
BroadcastOk(sa, sb) ==
    \A d \in 1..2 : sa[d] = sb[d] \/ sa[d] = 1 \/ sb[d] = 1

BroadcastShape(sa, sb) == <<Max2(sa[1], sb[1]), Max2(sa[2], sb[2])>>

Pixel(A, i, j) ==
    A[IF Len(A) = 1 THEN 1 ELSE i][IF Len(A[1]) = 1 THEN 1 ELSE j]

\* A + B
np_add(A, B) ==
    LET sh == BroadcastShape(Shape(A), Shape(B))
    IN  [i \in 1..sh[1] |-> [j \in 1..sh[2] |-> Pixel(A, i, j) + Pixel(B, i, j)]]

RECURSIVE StackSum(_, _, _)
StackSum(images, i, j) ==
    IF images = <<>> THEN 0
    ELSE Pixel(Head(images), i, j) + StackSum(Tail(images), i, j)

RECURSIVE StackShape(_)
StackShape(images) ==
    IF Len(images) = 1 THEN Shape(images[1])
    ELSE BroadcastShape(Shape(Head(images)), StackShape(Tail(images)))

\* np.mean(images, axis=0): per pixel, the sum over the stack / its length
np_mean_axis1(images) ==
    LET sh == StackShape(images)
    IN  [k \in 1..Len(images) |-> [j \in 1..sh[2] |->
            <<np_sum([i \in 1..Len(images[k]) |-> Pixel(images[k], i, j)]),
              Len(images[k])>>]]
np_mean_axis0(images) ==
    LET sh == StackShape(images)
    IN  [i \in 1..sh[1] |-> [j \in 1..sh[2] |->
            <<StackSum(images, i, j), Len(images)>>]]

\* What np.mean makes of a list of images: of one shape, their stack mean;
\* of differing shapes the list is ragged, and the numpy build either
\* refuses it or averages the images as broadcast objects.
MeanOutcomes(images) ==
    IF \A k \in DOMAIN images : Shape(images[k]) = Shape(images[1])
    THEN {"mean"}
    ELSE {"mean", "ValueError"}

(* ------------------------------------------------- the cells' statements *)
\* print(np.max(S)); print(np.min(S)): a reduction of an empty array raises
print_max_min(S) ==
    IF S = <<>> THEN [err |-> "ValueError", printed |-> <<>>]
    ELSE [err |-> "none", printed |-> << <<np_max(S), 1>>, <<np_min(S), 1>> >>]

\* print(np.mean(S)); print(stats.mode(S)[0][0]); print(np.median(S));
\* print(np.std(S)): of an empty series the mean prints nan, and indexing
\* the empty mode array raises
print_stats(S) ==
    IF stats_mode(S)[1] = <<>>
    THEN [err |-> "IndexError", printed |-> <<np_mean(S)>>]
    ELSE [err |-> "none",
          printed |-> <<np_mean(S), <<stats_mode(S)[1][1], 1>>,
                        np_median(S), np_std(S)>>]

\* countvalues[countvalues<1050]
clip15(S) == MaskIndex(S, [i \in DOMAIN S |-> S[i] < clip15_upper])

\* countvalues[(countvalues>=clipmin) & (countvalues<=clipmax)]
clip16_exclusive(S) ==
    MaskIndex(S, [i \in DOMAIN S |-> S[i] > clipmin /\ S[i] < clipmax])
clip16(S) ==
    MaskIndex(S, [i \in DOMAIN S |-> S[i] >= clipmin /\ S[i] <= clipmax])

\* (cmax-cmin)/nbins*len(countvalues[(countvalues>=cmin) & (countvalues<=cmax)])
\* with Python 2's integer division
normalization16(S) ==
    ((cmax - cmin) \div nbins)
        * Len(MaskIndex(S, [i \in DOMAIN S |-> S[i] >= cmin /\ S[i] <= cmax]))

NoLinspace == [start |-> 0, stop |-> 0, num |-> 0]

\* xarray is kept as the arguments of its np.linspace call; XArray is the array
xarray16 == [start |-> cmin, stop |-> cmax, num |-> nbins * 10]

XArray == np_linspace(xarray.start, xarray.stop, xarray.num)

(* --------------------------------------------------------- the notebook *)
\* cells 0 and 17 are markdown
NextCell(c) == IF c = 16 THEN 18 ELSE c + 1

At(c) == pc = c /\ err = "none" /\ call = "none"

Defined(names) == names \subseteq bound

\* the cell ran through, binding the names it assigns
Ok(c, names) ==
    /\ pc' = NextCell(c)
    /\ err' = "none"
    /\ bound' = bound \cup names

\* the cell stopped with an exception, after binding these names
Raise(e, names) ==
    /\ pc' = pc
    /\ err' = e
    /\ bound' = bound \cup names

Finish(c, e, names) == IF e = "none" THEN Ok(c, names) ELSE Raise(e, names)

NoArgs == [bins |-> 0, rmin |-> 0, rmax |-> 0]

Init ==
    /\ pc = 1
    /\ err = "none"
    /\ bound = {}
    /\ hdulist = <<>> /\ imagedata = <<>> /\ countvalues = <<>>
    /\ clippedvalues = <<>> /\ normalization = 0
    /\ mu = <<0, 0>> /\ sig = <<0, 0>> /\ mode = 0
    /\ xarray = NoLinspace
    /\ hdu2 = <<>> /\ imagedata2 = <<>>
    /\ sum = <<>> /\ allimages = <<>> /\ avg = <<>>
    /\ printed = <<>> /\ plot = NoPlot
    /\ avg_fits = <<>>
    /\ call = "none" /\ args = NoArgs

\* a cell that only reads names and shows `shown`
Show(c, names, shown) ==
    /\ At(c)
    /\ IF Defined(names)
       THEN Ok(c, {}) /\ printed' = shown
       ELSE Raise("NameError", {}) /\ printed' = <<>>
    /\ plot' = NoPlot
    /\ UNCHANGED <<file1, fit, stack, avg_fits, fn>>

Cell1 ==
    /\ At(1)
    /\ Ok(1, {"np", "matplotlib", "plt", "fits", "stats", "norm"})
    /\ UNCHANGED <<file1, fit, stack, output, avg_fits, fn>>

\* hdulist = fits.open('00000026.BIAS.FIT'): the file holds any image
Cell2 ==
    /\ At(2)
    /\ IF Defined({"fits"})
       THEN \E img \in Images : hdulist' = img /\ Ok(2, {"hdulist"})
       ELSE Raise("NameError", {}) /\ UNCHANGED hdulist
    /\ UNCHANGED <<imagedata, countvalues, fit, stack, output, avg_fits, fn>>

Cell3 == Show(3, {"hdulist"}, <<>>)

Cell4 ==
    /\ At(4)
    /\ IF Defined({"hdulist"}) THEN Ok(4, {"header"}) ELSE Raise("NameError", {})
    /\ UNCHANGED <<file1, fit, stack, output, avg_fits, fn>>

Cell5 == Show(5, {"header"}, <<>>)

Cell6 == Show(6, {"header"}, <<>>)

\* imagedata = hdulist[0].data
Cell7 ==
    /\ At(7)
    /\ IF Defined({"hdulist"})
       THEN imagedata' = hdulist /\ Ok(7, {"imagedata"})
       ELSE Raise("NameError", {}) /\ UNCHANGED imagedata
    /\ UNCHANGED <<hdulist, countvalues, fit, stack, output, avg_fits, fn>>

Cell8 == Show(8, {"imagedata"}, << <<Shape(imagedata)[1], 1>>, <<Shape(imagedata)[2], 1>> >>)

\* countvalues = imagedata.flatten()
Cell9 ==
    /\ At(9)
    /\ IF Defined({"imagedata"})
       THEN countvalues' = flatten(imagedata) /\ Ok(9, {"countvalues"})
       ELSE Raise("NameError", {}) /\ UNCHANGED countvalues
    /\ UNCHANGED <<hdulist, imagedata, fit, stack, output, avg_fits, fn>>

Cell10 == Show(10, {"countvalues"}, << <<Len(countvalues), 1>> >>)

Cell11 ==
    /\ At(11)
    /\ IF Defined({"np", "countvalues"})
       THEN LET r == print_max_min(countvalues)
            IN  Finish(11, r.err, {}) /\ printed' = r.printed
       ELSE Raise("NameError", {}) /\ printed' = <<>>
    /\ plot' = NoPlot
    /\ UNCHANGED <<file1, fit, stack, avg_fits, fn>>

\* plt.hist(countvalues,bins=100)
Cell12 ==
    /\ At(12)
    /\ IF Defined({"plt", "countvalues"})
       THEN LET r == plt_hist_auto(countvalues, hist12_bins)
            IN  Finish(12, r.err, {}) /\ plot' = r.plot
       ELSE Raise("NameError", {}) /\ plot' = NoPlot
    /\ printed' = <<>>
    /\ UNCHANGED <<file1, fit, stack, avg_fits, fn>>

\* plt.hist(countvalues,range=[900,1300], bins=100)
Cell13 ==
    /\ At(13)
    /\ IF Defined({"plt", "countvalues"})
       THEN LET r == plt_hist(countvalues, hist13_bins, hist13_rmin, hist13_rmax)
            IN  Finish(13, r.err, {}) /\ plot' = r.plot
       ELSE Raise("NameError", {}) /\ plot' = NoPlot
    /\ printed' = <<>>
    /\ UNCHANGED <<file1, fit, stack, avg_fits, fn>>

Cell14 ==
    /\ At(14)
    /\ IF Defined({"np", "stats", "countvalues"})
       THEN LET r == print_stats(countvalues)
            IN  Finish(14, r.err, {}) /\ printed' = r.printed
       ELSE Raise("NameError", {}) /\ printed' = <<>>
    /\ plot' = NoPlot
    /\ UNCHANGED <<file1, fit, stack, avg_fits, fn>>

\* clippedvalues = countvalues[countvalues<1050], then its statistics
Cell15 ==
    /\ At(15)
    /\ IF Defined({"np", "stats", "countvalues"})
       THEN LET r == print_stats(clip15(countvalues))
            IN  /\ clippedvalues' = clip15(countvalues)
                /\ Finish(15, r.err, {"clippedvalues"})
                /\ printed' = r.printed
       ELSE Raise("NameError", {}) /\ printed' = <<>> /\ UNCHANGED clippedvalues
    /\ plot' = NoPlot
    /\ UNCHANGED <<file1, normalization, mu, sig, mode, xarray, stack, avg_fits, fn>>

\* the fit: indexing the mode of an empty clipped series raises after
\* normalization, clippedvalues, mu and sig are assigned
Cell16 ==
    /\ At(16)
    /\ IF Defined({"np", "stats", "norm", "plt", "countvalues"})
       THEN LET clipped == clip16(countvalues)
                m == stats_mode(clipped)[1]
                early == {"cmin", "cmax", "nbins", "normalization", "clipmin",
                          "clipmax", "clippedvalues", "mu", "sig"}
            IN  /\ normalization' = normalization16(countvalues)
                /\ clippedvalues' = clipped
                /\ mu' = np_mean(clipped)
                /\ sig' = np_std(clipped)
                /\ IF m = <<>>
                   THEN /\ Raise("IndexError", early)
                        /\ plot' = NoPlot
                        /\ UNCHANGED <<mode, xarray>>
                   ELSE LET r == plt_hist(countvalues, nbins, cmin, cmax)
                        IN  /\ mode' = m[1]
                            /\ xarray' = xarray16
                            /\ Finish(16, r.err, early \cup {"mode", "xarray", "yarray"})
                            /\ plot' = r.plot
       ELSE Raise("NameError", {}) /\ plot' = NoPlot /\ UNCHANGED fit
    /\ printed' = <<>>
    /\ UNCHANGED <<file1, stack, avg_fits, fn>>

\* hdu2 = fits.open('00000025.BIAS.FIT'); imagedata2 = hdu2[0].data
Cell18 ==
    /\ At(18)
    /\ IF Defined({"fits"})
       THEN \E img \in Images2 :
                hdu2' = img /\ imagedata2' = img /\ Ok(18, {"hdu2", "imagedata2"})
       ELSE Raise("NameError", {}) /\ UNCHANGED <<hdu2, imagedata2>>
    /\ UNCHANGED <<sum, allimages, avg, file1, fit, output, avg_fits, fn>>

\* sum = imagedata + imagedata2; allimages=[imagedata2,imagedata];
\* avg = np.mean(allimages,axis=0)
Cell19 ==
    /\ At(19)
    /\ IF ~Defined({"np", "imagedata", "imagedata2"})
       THEN Raise("NameError", {}) /\ UNCHANGED <<sum, allimages, avg>>
       ELSE IF ~BroadcastOk(Shape(imagedata), Shape(imagedata2))
       THEN Raise("ValueError", {}) /\ UNCHANGED <<sum, allimages, avg>>
       ELSE /\ sum' = np_add(imagedata, imagedata2)
            /\ allimages' = <<imagedata2, imagedata>>
            /\ \E o \in MeanOutcomes(<<imagedata2, imagedata>>) :
                  IF o = "mean"
                  THEN /\ avg' = np_mean_axis0(<<imagedata2, imagedata>>)
                       /\ Ok(19, {"sum", "allimages", "avg"})
                  ELSE /\ Raise(o, {"sum", "allimages"})
                       /\ UNCHANGED avg
    /\ UNCHANGED <<hdu2, imagedata2, file1, fit, output, avg_fits, fn>>

Cell20 == Show(20, {"avg"}, << <<Shape(avg)[1], 1>>, <<Shape(avg)[2], 1>> >>)

\* newhdu = fits.PrimaryHDU(sub); newhdu.writeto('avg.fits')
Cell21 ==
    /\ At(21)
    /\ IF Defined({"fits", "sub"})
       THEN avg_fits' = sum /\ Ok(21, {"newhdu"})
       ELSE Raise("NameError", {}) /\ UNCHANGED avg_fits
    /\ UNCHANGED <<file1, fit, stack, output, fn>>

Next ==
    \/ Cell1 \/ Cell2 \/ Cell3 \/ Cell4 \/ Cell5 \/ Cell6 \/ Cell7
    \/ Cell8 \/ Cell9 \/ Cell10 \/ Cell11 \/ Cell12 \/ Cell13 \/ Cell14
    \/ Cell15 \/ Cell16 \/ Cell18 \/ Cell19 \/ Cell20 \/ Cell21

Spec == Init /\ [][Next]_vars

(* ------------------------------------------------------------------------ *)
(* The statistics and histogram calls on their own: the statements of      *)
(* cells 11 and 14 and the plt.hist call of cells 13 and 16, applied to    *)
(* any short series and any range and bin count.                           *)
(* ------------------------------------------------------------------------ *)
SmallSeries == UNION {[1..n -> 0..MaxVal] : n \in 0..MaxLen}

InitFn ==
    /\ pc = 0
    /\ err = "none"
    /\ bound = {"np", "matplotlib", "plt", "fits", "stats", "norm", "countvalues"}
    /\ hdulist = <<>> /\ imagedata = <<>>
    /\ countvalues \in SmallSeries
    /\ clippedvalues = <<>> /\ normalization = 0
    /\ mu = <<0, 0>> /\ sig = <<0, 0>> /\ mode = 0
    /\ xarray = NoLinspace
    /\ hdu2 = <<>> /\ imagedata2 = <<>>
    /\ sum = <<>> /\ allimages = <<>> /\ avg = <<>>
    /\ printed = <<>> /\ plot = NoPlot
    /\ avg_fits = <<>>
    /\ call = "none" /\ args = NoArgs

\* the statements of cell 11, then those of cell 14
FnSummarize ==
    /\ pc = 0 /\ call = "none"
    /\ LET r1 == print_max_min(countvalues)
           r2 == print_stats(countvalues)
       IN  IF r1.err # "none"
           THEN err' = r1.err /\ printed' = r1.printed
           ELSE err' = r2.err /\ printed' = r1.printed \o r2.printed
    /\ call' = "summarize"
    /\ UNCHANGED <<pc, bound, file1, fit, stack, plot, avg_fits, args>>

\* plt.hist(countvalues, range=[rmin, rmax], bins=bins)
FnHist ==
    /\ pc = 0 /\ call = "none"
    /\ \E bins \in (-1)..MaxVal, rmin \in 0..MaxVal, rmax \in 0..MaxVal :
          LET r == plt_hist(countvalues, bins, rmin, rmax)
          IN  /\ err' = r.err
              /\ plot' = r.plot
              /\ args' = [bins |-> bins, rmin |-> rmin, rmax |-> rmax]
    /\ call' = "hist"
    /\ UNCHANGED <<pc, bound, file1, fit, stack, printed, avg_fits>>

NextFn == FnSummarize \/ FnHist

SpecFn == InitFn /\ [][NextFn]_vars

(* ------------------------------------------------------------------------ *)
(* Properties                                                               *)
(* ------------------------------------------------------------------------ *)
\* equality and order of quotients with non-zero denominators
FracEq(a, b) == a[2] > 0 /\ b[2] > 0 /\ a[1] * b[2] = b[1] * a[2]

FracLe(a, b) == a[2] > 0 /\ b[2] > 0 /\ a[1] * b[2] <= b[1] * a[2]

InClosed(S, lo, hi) == Cardinality({i \in DOMAIN S : lo <= S[i] /\ S[i] <= hi})

RECURSIVE WeightedSum(_, _, _)
WeightedSum(S, values, power) ==
    IF values = {} THEN 0
    ELSE LET v == CHOOSE x \in values : TRUE
         IN  Occurrences(S, v) * (IF power = 2 THEN v * v ELSE v)
                + WeightedSum(S, values \ {v}, power)

\* sum of the samples and of their squares, value by value
Total(S) == WeightedSum(S, Range(S), 1)

TotalSq(S) == WeightedSum(S, Range(S), 2)

IsMean(m, S) == FracEq(m, <<Total(S), Len(S)>>)

\* population variance: (n * sum x^2 - (sum x)^2) / n^2
IsPopulationVariance(v, S) ==
    FracEq(v, <<Len(S) * TotalSq(S) - Total(S) * Total(S), Len(S) * Len(S)>>)

\* the k-th smallest sample
Kth(S, k) ==
    CHOOSE v \in Range(S) :
        /\ Cardinality({i \in DOMAIN S : S[i] < v}) < k
        /\ k <= Cardinality({i \in DOMAIN S : S[i] <= v})

\* t holds samples of s at increasing positions
IsSubsequence(t, s) ==
    \E f \in [DOMAIN t -> DOMAIN s] :
        /\ \A i \in DOMAIN t : s[f[i]] = t[i]
        /\ \A i, j \in DOMAIN t : i < j => f[i] < f[j]

\* t is s with exactly the samples satisfying Keep, order and multiplicity kept
IsFiltered(t, s, Keep(_)) ==
    /\ IsSubsequence(t, s)
    /\ \A v \in Range(s) \cup Range(t) :
          Occurrences(t, v) = IF Keep(v) THEN Occurrences(s, v) ELSE 0

Keep15(x) == x < 1050

Keep16(x) == x >= 900 /\ x <= 1100

Ran15 == "clippedvalues" \in bound /\ "normalization" \notin bound

Ran16 == "normalization" \in bound

Through16 == pc >= 18

After16 == pc = 18

Ran19 == pc > 19 \/ (pc = 19 /\ err # "none")

SameShape == Shape(imagedata) = Shape(imagedata2)

ValidHist == args.bins > 0 /\ args.rmin < args.rmax

\* C1: for a valid histogram spec the range is cut into binCount bins of
\* equal width from rangeMin to rangeMax, each bin counts the samples
\* between its edges (the last bin includes rangeMax), and the counts sum to
\* the number of samples in the closed range, which is at most count(S).
C1_HistogramCountsInRange ==
    (call = "hist" /\ ValidHist) =>
        LET b  == args.bins
            lo == args.rmin
            hi == args.rmax
            S  == countvalues
            e  == plot.edges
        IN  /\ err = "none"
            /\ Len(plot.counts) = b
            /\ Len(e) = b + 1
            /\ FracEq(e[1], <<lo, 1>>)
            /\ FracEq(e[b + 1], <<hi, 1>>)
            /\ \A k \in 1..b :
                  /\ (e[k + 1][1] * e[k][2] - e[k][1] * e[k + 1][2]) * b
                        = (hi - lo) * e[k][2] * e[k + 1][2]
                  /\ plot.counts[k] = Cardinality({i \in DOMAIN S :
                        /\ FracLe(e[k], <<S[i], 1>>)
                        /\ \/ ~FracLe(e[k + 1], <<S[i], 1>>)
                           \/ (k = b /\ S[i] = hi)})
            /\ np_sum(plot.counts) = InClosed(S, lo, hi)
            /\ np_sum(plot.counts) <= Len(S)

C1_Witness ==
    /\ call = "hist" /\ ValidHist /\ err = "none"
    /\ args.bins >= 2
    /\ \E i \in DOMAIN countvalues : countvalues[i] = args.rmax
    /\ \E i \in DOMAIN countvalues : countvalues[i] > args.rmax
    /\ \E i \in DOMAIN countvalues : countvalues[i] < args.rmin

\* C2: for two images of one shape, sum and avg have that shape, sum holds
\* A[i][j] + B[i][j] and avg holds (A[i][j] + B[i][j]) / 2 at every position,
\* whichever order the images are listed in.
C2_PixelwiseSumAndMean ==
    (pc >= 20 /\ SameShape) =>
        /\ Shape(sum) = Shape(imagedata)
        /\ Shape(avg) = Shape(imagedata)
        /\ \A i \in 1..Shape(imagedata)[1], j \in 1..Shape(imagedata)[2] :
              /\ sum[i][j] = imagedata[i][j] + imagedata2[i][j]
              /\ FracEq(avg[i][j], <<imagedata[i][j] + imagedata2[i][j], 2>>)
        /\ avg = np_mean_axis0(<<imagedata, imagedata2>>)

C2_Witness ==
    /\ pc = 20 /\ err = "none" /\ SameShape
    /\ Shape(imagedata)[1] * Shape(imagedata)[2] >= 2
    /\ imagedata # imagedata2

\* C3: combining images of differing shapes fails and produces no image.
C3_ShapeMismatchFails ==
    (Ran19 /\ ~SameShape) =>
        /\ err # "none"
        /\ "sum" \notin bound
        /\ "avg" \notin bound

\* C4: no statistic of an empty series yields a value: the statistics of a
\* clipped series that kept no sample fail without printing or assigning one.
C4_EmptySeriesFails ==
    ("clippedvalues" \in bound /\ clippedvalues = <<>>) =>
        /\ err # "none"
        /\ printed = <<>>
        /\ "mu" \notin bound

\* C5: the reported mode occurs at least as often as every other value, and
\* among the values occurring that often it is the smallest.
C5_ModeMostFrequentSmallest ==
    (call = "summarize" /\ countvalues # <<>>) =>
        /\ err = "none"
        /\ LET m == printed[4]
               S == countvalues
           IN  /\ m[2] = 1
               /\ m[1] \in Range(S)
               /\ \A v \in Range(S) :
                     /\ Occurrences(S, v) <= Occurrences(S, m[1])
                     /\ Occurrences(S, v) = Occurrences(S, m[1]) => m[1] <= v

C5_Witness ==
    /\ call = "summarize" /\ err = "none"
    /\ Len(countvalues) = 3
    /\ countvalues[1] > countvalues[2]
    /\ countvalues[2] < countvalues[3]
    /\ countvalues[1] # countvalues[3]
    /\ printed[4] = <<countvalues[2], 1>>

\* C6: min <= median <= max and min <= mean <= max, the median being the
\* middle sample of the sorted series (odd count) or the mean of the two
\* middle samples (even count).
C6_MedianAndMeanWithinMinMax ==
    (call = "summarize" /\ countvalues # <<>>) =>
        /\ err = "none"
        /\ LET S      == countvalues
               n      == Len(S)
               max    == printed[1]
               min    == printed[2]
               mean   == printed[3]
               median == printed[5]
           IN  /\ FracLe(min, median) /\ FracLe(median, max)
               /\ FracLe(min, mean) /\ FracLe(mean, max)
               /\ IF n % 2 = 1
                  THEN FracEq(median, <<Kth(S, (n + 1) \div 2), 1>>)
                  ELSE FracEq(median, <<Kth(S, n \div 2) + Kth(S, n \div 2 + 1), 2>>)

C6_Witness ==
    /\ call = "summarize" /\ err = "none"
    /\ Len(countvalues) = 2
    /\ countvalues[1] > countvalues[2] + 1
    /\ FracEq(printed[5], <<countvalues[1] + countvalues[2], 2>>)

\* C7: the clipped series holds exactly the samples within the bounds
\* (x < 1050 in cell 15; 900 <= x <= 1100 in cell 16), in their original order
\* and multiplicity; the unclipped series stays the flattened image; the
\* statistics printed after clipping are those of the clipped samples.
C7_FilterKeepsExactlyTheBoundedSamples ==
    /\ Ran15 => IsFiltered(clippedvalues, countvalues, Keep15)
    /\ Ran16 => IsFiltered(clippedvalues, countvalues, Keep16)
    /\ "countvalues" \in bound => countvalues = flatten(hdulist)
    /\ pc = 16 /\ err = "none" =>
          /\ IsMean(printed[1], clippedvalues)
          /\ printed[1][2] = Cardinality({i \in DOMAIN countvalues : Keep15(countvalues[i])})
    /\ pc = 15 /\ err = "none" => IsMean(printed[1], countvalues)

C7_Witness ==
    /\ Through16 /\ err = "none"
    /\ Len(countvalues) = 3
    /\ Len(clippedvalues) = 2
    /\ clippedvalues[1] > clippedvalues[2]
    /\ countvalues[2] > 1100

\* C8 as stated: mu, sigma and the normalization come from one and the same
\* series, and the curve has binCount * 10 evenly spaced points from rangeMin
\* to rangeMax.
C8_FitFromOneSeries ==
    After16 =>
        \E S \in {countvalues, clippedvalues} :
            /\ IsMean(mu, S)
            /\ IsPopulationVariance(sig, S)
            /\ normalization * nbins = (cmax - cmin) * InClosed(S, cmin, cmax)

\* C8 amended: mu and sigma are the mean and the population standard
\* deviation of the samples within [clipmin, clipmax], the normalization is
\* (rangeMax - rangeMin) / binCount times the number of samples of the
\* unclipped series within [rangeMin, rangeMax], and the curve has
\* binCount * 10 evenly spaced points, the first rangeMin, the last rangeMax.
C8_FitFromClippedNormalizedByUnclipped ==
    After16 =>
        /\ IsFiltered(clippedvalues, countvalues, Keep16)
        /\ IsMean(mu, clippedvalues)
        /\ IsPopulationVariance(sig, clippedvalues)
        /\ normalization * nbins = (cmax - cmin) * InClosed(countvalues, cmin, cmax)
        /\ LET x == XArray
           IN  /\ Len(x) = nbins * 10
               /\ FracEq(x[1], <<cmin, 1>>)
               /\ FracEq(x[Len(x)], <<cmax, 1>>)
               /\ \A k \in 1..(Len(x) - 1) :
                     (x[k + 1][1] * x[k][2] - x[k][1] * x[k + 1][2]) * (nbins * 10 - 1)
                        = (cmax - cmin) * x[k][2] * x[k + 1][2]

C8_Witness ==
    /\ After16 /\ err = "none"
    /\ Len(clippedvalues) >= 2
    /\ Len(clippedvalues) < InClosed(countvalues, cmin, cmax)
    /\ sig[1] > 0

\* C9: the histogram fails exactly when binCount <= 0 or rangeMin >= rangeMax
\* (rangeMin = rangeMax included), returning no edges or counts.
C9_InvalidSpecFails ==
    call = "hist" =>
        /\ (args.bins <= 0 \/ args.rmin >= args.rmax) <=> err # "none"
        /\ err # "none" => plot = NoPlot

\* C10: run top to bottom, no cell reads a name that no earlier statement
\* bound, so the run never stops with an undefined name.
C10_NoUndefinedName == err # "NameError"

====
